---------------------------- MODULE Spec2Model ----------------------------
(***************************************************************************)
(* Model of the CLD1015 laser-driver adapter, the MPM210H power-meter      *)
(* adapter and the current-sweep orchestrator.                             *)
(*                                                                         *)
(* Text is modelled as a sequence of one-character strings.  Every device  *)
(* I/O the adapters attempt (transport open, write, read) is appended to   *)
(* the trace io, with its outcome.  Currents are exact rationals           *)
(* [num, den]; the sweep's f64 milliamp values are modelled as integers    *)
(* (integers are exact in f64, so the += accumulation is exact).           *)
(***************************************************************************)
EXTENDS Integers, Sequences, FiniteSets, TLC

VARIABLES
    cld_device,       \* CLD1015.device is Some(..)
    mpm_connection,   \* MPM210H.connection is Some(..)
    io,               \* device I/O attempted (per adapter call in library use, per run in a sweep)
    pc,               \* position of the client / of the sweep
    config,           \* CurrentSweepConfig of the sweep
    current_ma,       \* sweep loop variable
    records,          \* sweep: Vec<MeasurementRecord>
    saved,            \* batches handed to save_measurements_to_csv
    ret,              \* result returned by the sweep
    errors,           \* clear_error_queue: Vec<String> collected so far
    last,             \* library use: the last adapter call and its result
    connected_ok      \* history: connect() has returned Ok on [cld, mpm]

vars == <<cld_device, mpm_connection, io, pc, config, current_ma, records,
          saved, ret, errors, last, connected_ok>>

---------------------------------------------------------------------------
(* Bounds *)

MaxErrors == 2      \* error-queue entries a device reports before its sentinel
MaxLevel == 3       \* sweep start/stop are 0..MaxLevel times Quantum
Quantum == 700      \* granularity of the configured currents, in mA
MaxPort == 5        \* ports requested are 0..MaxPort
MaxLen == 5         \* longest READ? response enumerated character by character

---------------------------------------------------------------------------
(* Text *)

IsWhitespace(c) == c \in {" ", "\n", "\r", "\t"}

RECURSIVE TrimStart(_)
TrimStart(s) ==
    IF s # <<>> /\ IsWhitespace(Head(s)) THEN TrimStart(Tail(s)) ELSE s

RECURSIVE TrimEnd(_)
TrimEnd(s) ==
    IF s # <<>> /\ IsWhitespace(s[Len(s)])
    THEN TrimEnd(SubSeq(s, 1, Len(s) - 1))
    ELSE s

\* str::trim
Trim(s) == TrimEnd(TrimStart(s))

\* u8::to_ascii_lowercase on the letters the responses use
ToAsciiLowercase(c) ==
    CASE c = "O" -> "o"
      [] c = "N" -> "n"
      [] c = "F" -> "f"
      [] c = "E" -> "e"
      [] c = "R" -> "r"
      [] OTHER -> c

\* str::to_lowercase
ToLowercase(s) == [i \in 1..Len(s) |-> ToAsciiLowercase(s[i])]

\* str::eq_ignore_ascii_case
EqIgnoreAsciiCase(a, b) ==
    /\ Len(a) = Len(b)
    /\ \A i \in 1..Len(a) : ToAsciiLowercase(a[i]) = ToAsciiLowercase(b[i])

\* str::starts_with
StartsWith(s, p) == Len(s) >= Len(p) /\ SubSeq(s, 1, Len(p)) = p

\* str::contains
Contains(s, p) ==
    \E i \in 1..(Len(s) + 1) :
        i + Len(p) - 1 <= Len(s) /\ SubSeq(s, i, i + Len(p) - 1) = p

\* str::split(',').collect(): always at least one field
RECURSIVE Split(_, _)
Split(s, sep) ==
    IF \A i \in 1..Len(s) : s[i] # sep
    THEN <<s>>
    ELSE LET k == CHOOSE i \in 1..Len(s) :
                      s[i] = sep /\ \A j \in 1..(i - 1) : s[j] # sep
         IN  <<SubSeq(s, 1, k - 1)>> \o Split(SubSeq(s, k + 1, Len(s)), sep)

ON == <<"O", "N">>
ONE == <<"1">>
ZERO == <<"0">>
NO_ERROR == <<"n", "o", " ", "e", "r", "r", "o", "r">>

---------------------------------------------------------------------------
(* Results and I/O events *)

Unit == "()"
Ok(v) == [ok |-> TRUE, val |-> v, err |-> "none"]
Err(e) == [ok |-> FALSE, val |-> Unit, err |-> e]

NoArg == "none"
WriteEvent(d, name, arg, wok) ==
    [dev |-> d, kind |-> "write", name |-> name, arg |-> arg, raw |-> <<>>, ok |-> wok]
ReadEvent(d, r) ==
    [dev |-> d, kind |-> "read", name |-> "", arg |-> NoArg, raw |-> r.raw, ok |-> r.ok]
OpenEvent(d, ook) ==
    [dev |-> d, kind |-> "open", name |-> "", arg |-> NoArg, raw |-> <<>>, ok |-> ook]

\* outcome of one transport read: failure, or the text received
ReadFail == [ok |-> FALSE, raw |-> <<>>]
Received(s) == [ok |-> TRUE, raw |-> s]

\* an adapter call yields its result and the I/O trace it leaves behind
Out(res, tr) == [res |-> res, io |-> tr]

---------------------------------------------------------------------------
(* Laser driver adapter (CLD1015) *)

\* f64 amperes as an exact rational
Amps(n, d) == [num |-> n, den |-> d]
Gt(a, b) == a.num * b.den > b.num * a.den

MAX_SAFE_CURRENT_AMPS == Amps(15, 10)

\* CLD1015::write
CldWrite(dev, tr, name, arg, wok) ==
    IF dev
    THEN Out(IF wok THEN Ok(Unit) ELSE Err("Io"),
             Append(tr, WriteEvent("cld", name, arg, wok)))
    ELSE Out(Err("NotConnected"), tr)

\* CLD1015::read
CldRead(dev, tr, r) ==
    IF dev
    THEN Out(IF r.ok THEN Ok(Trim(r.raw)) ELSE Err("Io"),
             Append(tr, ReadEvent("cld", r)))
    ELSE Out(Err("NotConnected"), tr)

\* query that reads a response even when its write failed
CldQueryReadingRegardless(dev, tr, name, arg, wok, r) ==
    CldRead(dev, CldWrite(dev, tr, name, arg, wok).io, r)

\* CLD1015::query
CldQuery(dev, tr, name, arg, wok, r) ==
    LET w == CldWrite(dev, tr, name, arg, wok)
    IN  IF ~w.res.ok THEN w ELSE CldRead(dev, w.io, r)

\* CLD1015::connect; the third field is the handle it leaves in self.device
CldConnect(dev, tr, rmok, ook, wok, r) ==
    IF ~rmok THEN [res |-> Err("Visa"), io |-> tr, dev |-> dev]
    ELSE IF ~ook
    THEN [res |-> Err("Visa"), io |-> Append(tr, OpenEvent("cld", FALSE)), dev |-> dev]
    ELSE LET q == CldQuery(TRUE, Append(tr, OpenEvent("cld", TRUE)), "*IDN?", NoArg, wok, r)
         IN  [res |-> q.res, io |-> q.io, dev |-> TRUE]

\* CLD1015::is_connected
CldIsConnected(dev) == dev

\* CLD1015::enable_tec
EnableTec(dev, tr, wok) == CldWrite(dev, tr, "OUTPut2:STATe", "ON", wok)

\* the response test shared by get_tec_state and get_laser_output
IsOn(response) == EqIgnoreAsciiCase(response, ON) \/ response = ONE

\* CLD1015::get_tec_state
GetTecState(dev, tr, wok, r) ==
    LET q == CldQuery(dev, tr, "OUTPut2:STATe?", NoArg, wok, r)
    IN  IF ~q.res.ok THEN q ELSE Out(Ok(IsOn(q.res.val)), q.io)

\* CLD1015::set_current_mode
SetCurrentMode(dev, tr, wok) ==
    CldWrite(dev, tr, "SOURce:FUNCtion:MODE", "CURRent", wok)

\* set_current with the ceiling taken in milliamperes
SetCurrentMilliampCeiling(dev, tr, current_amps, wok) ==
    IF Gt(current_amps, Amps(1500, 1))
    THEN Out(Err("InvalidInput"), tr)
    ELSE CldWrite(dev, tr, "SOURce:CURRent:LEVel:IMMediate:AMPLitude", current_amps, wok)

\* CLD1015::set_current
SetCurrent(dev, tr, current_amps, wok) ==
    IF Gt(current_amps, MAX_SAFE_CURRENT_AMPS)
    THEN Out(Err("InvalidInput"), tr)
    ELSE CldWrite(dev, tr, "SOURce:CURRent:LEVel:IMMediate:AMPLitude", current_amps, wok)

\* str::parse::<f64> succeeds, over the characters the modelled responses use
ParsesAsF64(s) ==
    LET body == IF s # <<>> /\ Head(s) = "-" THEN Tail(s) ELSE s
    IN  /\ body # <<>>
        /\ \A i \in 1..Len(body) : body[i] \in {"0", "1", "5", "7", "."}
        /\ \E i \in 1..Len(body) : body[i] # "."
        /\ Cardinality({i \in 1..Len(body) : body[i] = "."}) <= 1

\* CLD1015::get_current
GetCurrent(dev, tr, wok, r) ==
    LET q == CldQuery(dev, tr, "SOURce:CURRent:LEVel:IMMediate:AMPLitude?", NoArg, wok, r)
    IN  IF ~q.res.ok THEN q
        ELSE IF ParsesAsF64(q.res.val) THEN q
        ELSE Out(Err("InvalidData"), q.io)

\* set_laser_output whose TEC safety check also guards the off path
SetLaserOutputGatedOff(dev, tr, enabled, twok, tr_, wok) ==
    LET t == GetTecState(dev, tr, twok, tr_)
    IN  IF ~t.res.ok THEN t
        ELSE IF ~t.res.val THEN Out(Err("Other"), t.io)
        ELSE CldWrite(dev, t.io, "OUTPut:STATe", IF enabled THEN "ON" ELSE "OFF", wok)

\* set_laser_output that queries the TEC state but does not act on it
SetLaserOutputUnchecked(dev, tr, enabled, twok, tr_, wok) ==
    IF enabled
    THEN LET t == GetTecState(dev, tr, twok, tr_)
         IN  IF ~t.res.ok THEN t
             ELSE CldWrite(dev, t.io, "OUTPut:STATe", "ON", wok)
    ELSE CldWrite(dev, tr, "OUTPut:STATe", "OFF", wok)

\* CLD1015::set_laser_output
SetLaserOutput(dev, tr, enabled, twok, tr_, wok) ==
    IF enabled
    THEN LET t == GetTecState(dev, tr, twok, tr_)
         IN  IF ~t.res.ok THEN t
             ELSE IF ~t.res.val THEN Out(Err("Other"), t.io)
             ELSE CldWrite(dev, t.io, "OUTPut:STATe", "ON", wok)
    ELSE CldWrite(dev, tr, "OUTPut:STATe", "OFF", wok)

\* CLD1015::get_laser_output
GetLaserOutput(dev, tr, wok, r) ==
    LET q == CldQuery(dev, tr, "OUTPut:STATe?", NoArg, wok, r)
    IN  IF ~q.res.ok THEN q ELSE Out(Ok(IsOn(q.res.val)), q.io)

\* CLD1015::get_error
CldGetError(dev, tr, wok, r) == CldQuery(dev, tr, "SYST:ERR?", NoArg, wok, r)

\* the break test of CLD1015::clear_error_queue
CldQueueEmpty(response) == StartsWith(response, ZERO)

\* one turn of the loop of CLD1015::clear_error_queue: done is TRUE when the
\* call returns (res is then its result), else errs is the vector to go on with
CldClearErrorQueueTurn(dev, tr, errs, wok, r) ==
    LET q == CldQuery(dev, tr, "SYST:ERR?", NoArg, wok, r)
    IN  IF ~q.res.ok
        THEN [done |-> TRUE, res |-> q.res, io |-> q.io, errs |-> errs]
        ELSE IF CldQueueEmpty(q.res.val)
        THEN [done |-> TRUE, res |-> Ok(errs), io |-> q.io, errs |-> errs]
        ELSE [done |-> FALSE, res |-> Ok(Unit), io |-> q.io,
              errs |-> Append(errs, q.res.val)]

\* reset that accepts any completion value beginning with "1"
CldResetHeadPrefix(dev, tr, wok, owok, r) ==
    IF ~CldIsConnected(dev)
    THEN [done |-> TRUE, res |-> Err("NotConnected"), io |-> tr]
    ELSE LET w == CldWrite(dev, tr, "*RST", NoArg, wok)
         IN  IF ~w.res.ok THEN [done |-> TRUE, res |-> w.res, io |-> w.io]
             ELSE LET status == CldQuery(dev, w.io, "*OPC?", NoArg, owok, r)
                  IN  IF ~status.res.ok
                      THEN [done |-> TRUE, res |-> status.res, io |-> status.io]
                      ELSE IF ~StartsWith(status.res.val, ONE)
                      THEN [done |-> TRUE, res |-> Err("Other"), io |-> status.io]
                      ELSE [done |-> FALSE, res |-> Ok(Unit), io |-> status.io]

\* CLD1015::reset up to the error-queue drain: done is TRUE when reset
\* returns without draining, FALSE when it goes on to clear_error_queue
CldResetHead(dev, tr, wok, owok, r) ==
    IF ~CldIsConnected(dev)
    THEN [done |-> TRUE, res |-> Err("NotConnected"), io |-> tr]
    ELSE LET w == CldWrite(dev, tr, "*RST", NoArg, wok)
         IN  IF ~w.res.ok THEN [done |-> TRUE, res |-> w.res, io |-> w.io]
             ELSE LET status == CldQuery(dev, w.io, "*OPC?", NoArg, owok, r)
                  IN  IF ~status.res.ok
                      THEN [done |-> TRUE, res |-> status.res, io |-> status.io]
                      ELSE IF status.res.val # ONE
                      THEN [done |-> TRUE, res |-> Err("Other"), io |-> status.io]
                      ELSE [done |-> FALSE, res |-> Ok(Unit), io |-> status.io]

\* reset returning the error of its drain
CldResetTailPropagating(drained) == IF drained.ok THEN Ok(Unit) ELSE drained

\* the value CLD1015::reset returns once its drain has returned drained
CldResetTail(drained) == Ok(Unit)

---------------------------------------------------------------------------
(* Power meter adapter (MPM210H) *)

\* send_command that does not look at the connection handle
SendCommandUnguarded(conn, tr, name, arg, wok) ==
    Out(IF wok THEN Ok(Unit) ELSE Err("IoError"),
        Append(tr, WriteEvent("mpm", name, arg, wok)))

\* MPM210H::send_command
SendCommand(conn, tr, name, arg, wok) ==
    IF conn
    THEN Out(IF wok THEN Ok(Unit) ELSE Err("IoError"),
             Append(tr, WriteEvent("mpm", name, arg, wok)))
    ELSE Out(Err("NotConnected"), tr)

\* MPM210H::read_response: one receive; zero bytes means the peer closed
ReadResponse(conn, tr, r) ==
    IF conn
    THEN Out(IF r.ok /\ Len(r.raw) # 0 THEN Ok(Trim(r.raw)) ELSE Err("IoError"),
             Append(tr, ReadEvent("mpm", r)))
    ELSE Out(Err("NotConnected"), tr)

\* MPM210H::query
MpmQuery(conn, tr, name, arg, wok, r) ==
    LET w == SendCommand(conn, tr, name, arg, wok)
    IN  IF ~w.res.ok THEN w ELSE ReadResponse(conn, w.io, r)

\* MPM210H::connect; the third field is the handle it leaves in self.connection
MpmConnect(conn, tr, addrok, ook, tok, wok, r) ==
    IF ~addrok THEN [res |-> Err("ParseError"), io |-> tr, conn |-> conn]
    ELSE IF ~ook
    THEN [res |-> Err("IoError"), io |-> Append(tr, OpenEvent("mpm", FALSE)), conn |-> conn]
    ELSE IF ~tok
    THEN [res |-> Err("IoError"), io |-> Append(tr, OpenEvent("mpm", TRUE)), conn |-> conn]
    ELSE LET q == MpmQuery(TRUE, Append(tr, OpenEvent("mpm", TRUE)), "*IDN?", NoArg, wok, r)
         IN  [res |-> q.res, io |-> q.io, conn |-> TRUE]

\* MPM210H::is_connected
MpmIsConnected(conn) == conn

\* MPM210H::get_recognized_modules
GetRecognizedModules(conn, tr, wok, r) == MpmQuery(conn, tr, "IDIS?", NoArg, wok, r)

\* MPM210H::perform_zeroing
PerformZeroing(conn, tr, wok) ==
    IF ~MpmIsConnected(conn)
    THEN Out(Err("NotConnected"), tr)
    ELSE SendCommand(conn, tr, "ZERO", NoArg, wok)

\* MPM210H::read_power
ReadPower(conn, tr, module, wok, r) == MpmQuery(conn, tr, "READ?", module, wok, r)

\* read_power_from_port without the range test on the port
ReadPowerFromPortUnvalidated(conn, tr, module, port, wok, r) ==
    LET response == MpmQuery(conn, tr, "READ?", module, wok, r)
    IN  IF ~response.res.ok THEN response
        ELSE LET values == Split(response.res.val, ",")
                 port_index == port - 1
             IN  IF port_index < 0 \/ port_index >= Len(values)
                 THEN Out(Err("ParseError"), response.io)
                 ELSE Out(Ok(Trim(values[port_index + 1])), response.io)

\* read_power_from_port that indexes the fields by the 1-based port
ReadPowerFromPortOneBased(conn, tr, module, port, wok, r) ==
    IF port < 1 \/ port > 4
    THEN Out(Err("ParseError"), tr)
    ELSE LET response == MpmQuery(conn, tr, "READ?", module, wok, r)
         IN  IF ~response.res.ok THEN response
             ELSE LET values == Split(response.res.val, ",")
                      port_index == port
                  IN  IF port_index >= Len(values)
                      THEN Out(Err("ParseError"), response.io)
                      ELSE Out(Ok(Trim(values[port_index + 1])), response.io)

\* MPM210H::read_power_from_port
ReadPowerFromPort(conn, tr, module, port, wok, r) ==
    IF port < 1 \/ port > 4
    THEN Out(Err("ParseError"), tr)
    ELSE LET response == MpmQuery(conn, tr, "READ?", module, wok, r)
         IN  IF ~response.res.ok THEN response
             ELSE LET values == Split(response.res.val, ",")
                      port_index == port - 1
                  IN  IF port_index >= Len(values)
                      THEN Out(Err("ParseError"), response.io)
                      ELSE Out(Ok(Trim(values[port_index + 1])), response.io)

\* MPM210H::get_wavelength
GetWavelength(conn, tr, wok, r) == MpmQuery(conn, tr, "WAV?", NoArg, wok, r)

\* MPM210H::set_wavelength
SetWavelength(conn, tr, wavelength, wok) == SendCommand(conn, tr, "WAV", wavelength, wok)

\* MPM210H::get_error
MpmGetError(conn, tr, wok, r) == MpmQuery(conn, tr, "ERR?", NoArg, wok, r)

\* the break test of MPM210H::clear_error_queue
MpmQueueEmpty(response) ==
    StartsWith(Trim(response), ZERO) \/ Contains(ToLowercase(response), NO_ERROR)

\* a drain turn that pushes the response before testing it
MpmClearErrorQueueTurnPushFirst(conn, tr, errs, wok, r) ==
    LET q == MpmQuery(conn, tr, "ERR?", NoArg, wok, r)
    IN  IF ~q.res.ok
        THEN [done |-> TRUE, res |-> q.res, io |-> q.io, errs |-> errs]
        ELSE IF MpmQueueEmpty(q.res.val)
        THEN [done |-> TRUE, res |-> Ok(Append(errs, q.res.val)), io |-> q.io,
              errs |-> Append(errs, q.res.val)]
        ELSE [done |-> FALSE, res |-> Ok(Unit), io |-> q.io,
              errs |-> Append(errs, q.res.val)]

\* one turn of the loop of MPM210H::clear_error_queue (as CldClearErrorQueueTurn)
MpmClearErrorQueueTurn(conn, tr, errs, wok, r) ==
    LET q == MpmQuery(conn, tr, "ERR?", NoArg, wok, r)
    IN  IF ~q.res.ok
        THEN [done |-> TRUE, res |-> q.res, io |-> q.io, errs |-> errs]
        ELSE IF MpmQueueEmpty(q.res.val)
        THEN [done |-> TRUE, res |-> Ok(errs), io |-> q.io, errs |-> errs]
        ELSE [done |-> FALSE, res |-> Ok(Unit), io |-> q.io,
              errs |-> Append(errs, q.res.val)]

\* MPM210H::set_measurement_mode
SetMeasurementMode(conn, tr, mode, wok) == SendCommand(conn, tr, "WMOD", mode, wok)

\* MPM210H::set_average_time
SetAverageTime(conn, tr, avg_ms, wok) == SendCommand(conn, tr, "AVG", avg_ms, wok)

\* set_unit accepting one unit too many
SetUnitLoose(conn, tr, unit, wok) ==
    IF unit > 2
    THEN Out(Err("ParseError"), tr)
    ELSE SendCommand(conn, tr, "UNIT", unit, wok)

\* MPM210H::set_unit
SetUnit(conn, tr, unit, wok) ==
    IF unit > 1
    THEN Out(Err("ParseError"), tr)
    ELSE SendCommand(conn, tr, "UNIT", unit, wok)

---------------------------------------------------------------------------
(* Inputs: what the devices may answer, and what the client may ask *)

\* lines the laser driver may return to a state query (OUTPut:STATe?, OUTPut2:STATe?)
StateLines ==
    { <<"O", "N", "\n">>, <<"o", "n">>, <<"1", "\n">>, <<"O", "F", "F", "\n">>,
      <<"0", "\n">>, <<"O", "N", "1">> }

\* lines the laser driver may return to *OPC?
OpcLines == { <<"1", "\n">>, <<"0", "\n">>, <<"1", "1">>, <<"\n">> }

\* lines a device may return to an error-queue query
ErrLines ==
    { <<"0", ",", "o", "k", "\n">>, <<" ", "0", "\n">>,
      <<"-", "1", ",", "N", "O", " ", "E", "R", "R", "O", "R">>,
      <<"-", "1", ",", "e", "r", "r">>, <<"1", "0">> }

\* a device identification line
IdnLines == { <<"i", "d", "\n">> }

\* texts the power meter may return to READ?: every text of at most MaxLen characters
PowerChars == {"5", ",", " "}
PowerTexts == UNION { [1..n -> PowerChars] : n \in 0..MaxLen }

\* texts returned to other queries of the library client
OtherTexts == { <<"5", "\n">>, <<"-", "1", ".", "5">>, <<"e", "r", "r">>, <<>> }

\* what the devices answer during a sweep run
SweepStateLines == { <<"o", "n", "\n">>, <<"O", "F", "F", "\n">> }
SweepOpcLines == { <<"1", "\n">>, <<"0", "\n">> }
SweepErrLines == { <<"0", ",", "o", "k", "\n">>, <<"-", "1", ",", "e", "r", "r">> }
SweepPowerTexts == { <<"5", ",", " ", "7", "\n">>, <<"5">>, <<",">> }

ReadOutcomes(texts) == {ReadFail} \cup {Received(t) : t \in texts}

Ports == 0..MaxPort
SweepPorts == {2, MaxPort}
Modules == {0}
Units == 0..2
Currents == {k * Quantum : k \in 0..MaxLevel}
Steps == {k * Quantum : k \in (-1)..2}

\* amperes the library client may pass to set_current: around the ceiling
ClientAmps == {Amps(m, 1000) : m \in {0, 1499, 1500, 1501, 3000}}

\* the commands and queries a library client passes to write / query
ClientCommands == {"*CLS", "*IDN?"}

---------------------------------------------------------------------------
(* Library use: a client calls the adapters' public methods one at a time *)

Call(op, arg, res) == [op |-> op, arg |-> arg, res |-> res]
NoCall == Call("none", NoArg, Ok(Unit))

SweepVars == <<config, current_ma, records, saved, ret>>

\* an adapter call returns to the client
ApiReturn(op, arg, out) ==
    /\ pc' = "api_returned"
    /\ io' = out.io
    /\ last' = Call(op, arg, out.res)
    /\ UNCHANGED <<cld_device, mpm_connection, errors, connected_ok, SweepVars>>

ApiCldConnect ==
    /\ pc = "api"
    /\ \E rmok \in BOOLEAN, ook \in BOOLEAN, wok \in BOOLEAN, r \in ReadOutcomes(IdnLines) :
         LET out == CldConnect(cld_device, <<>>, rmok, ook, wok, r)
         IN  /\ cld_device' = out.dev
             /\ io' = out.io
             /\ last' = Call("cld.connect", NoArg, out.res)
             /\ connected_ok' = [connected_ok EXCEPT !.cld = @ \/ out.res.ok]
             /\ pc' = "api_returned"
             /\ UNCHANGED <<mpm_connection, errors, SweepVars>>

ApiCldWrite ==
    /\ pc = "api"
    /\ \E c \in ClientCommands, wok \in BOOLEAN :
         ApiReturn("cld.write", c, CldWrite(cld_device, <<>>, c, NoArg, wok))

ApiCldRead ==
    /\ pc = "api"
    /\ \E r \in ReadOutcomes(OtherTexts) :
         ApiReturn("cld.read", NoArg, CldRead(cld_device, <<>>, r))

ApiCldQuery ==
    /\ pc = "api"
    /\ \E c \in ClientCommands, wok \in BOOLEAN, r \in ReadOutcomes(OtherTexts) :
         ApiReturn("cld.query", c, CldQuery(cld_device, <<>>, c, NoArg, wok, r))

ApiEnableTec ==
    /\ pc = "api"
    /\ \E wok \in BOOLEAN :
         ApiReturn("cld.enable_tec", NoArg, EnableTec(cld_device, <<>>, wok))

ApiGetTecState ==
    /\ pc = "api"
    /\ \E wok \in BOOLEAN, r \in ReadOutcomes(StateLines) :
         ApiReturn("cld.get_tec_state", NoArg, GetTecState(cld_device, <<>>, wok, r))

ApiSetCurrentMode ==
    /\ pc = "api"
    /\ \E wok \in BOOLEAN :
         ApiReturn("cld.set_current_mode", NoArg, SetCurrentMode(cld_device, <<>>, wok))

ApiSetCurrent ==
    /\ pc = "api"
    /\ \E a \in ClientAmps, wok \in BOOLEAN :
         ApiReturn("cld.set_current", a, SetCurrent(cld_device, <<>>, a, wok))

ApiGetCurrent ==
    /\ pc = "api"
    /\ \E wok \in BOOLEAN, r \in ReadOutcomes(OtherTexts) :
         ApiReturn("cld.get_current", NoArg, GetCurrent(cld_device, <<>>, wok, r))

ApiSetLaserOutput ==
    /\ pc = "api"
    /\ \E enabled \in BOOLEAN, twok \in BOOLEAN, tr \in ReadOutcomes(StateLines),
          wok \in BOOLEAN :
         ApiReturn("cld.set_laser_output", enabled,
                   SetLaserOutput(cld_device, <<>>, enabled, twok, tr, wok))

ApiGetLaserOutput ==
    /\ pc = "api"
    /\ \E wok \in BOOLEAN, r \in ReadOutcomes(StateLines) :
         ApiReturn("cld.get_laser_output", NoArg, GetLaserOutput(cld_device, <<>>, wok, r))

ApiCldGetError ==
    /\ pc = "api"
    /\ \E wok \in BOOLEAN, r \in ReadOutcomes(ErrLines) :
         ApiReturn("cld.get_error", NoArg, CldGetError(cld_device, <<>>, wok, r))

\* the client calls CLD1015::clear_error_queue: errors = Vec::new(), then the loop
ApiCldClearErrorQueue ==
    /\ pc = "api"
    /\ pc' = "api_cld_drain"
    /\ io' = <<>>
    /\ errors' = <<>>
    /\ UNCHANGED <<cld_device, mpm_connection, last, connected_ok, SweepVars>>

\* the client calls CLD1015::reset
ApiCldReset ==
    /\ pc = "api"
    /\ \E wok \in BOOLEAN, owok \in BOOLEAN, r \in ReadOutcomes(OpcLines) :
         LET h == CldResetHead(cld_device, <<>>, wok, owok, r)
         IN  IF h.done
             THEN ApiReturn("cld.reset", NoArg, Out(h.res, h.io))
             ELSE /\ pc' = "api_reset_drain"
                  /\ io' = h.io
                  /\ errors' = <<>>
                  /\ UNCHANGED <<cld_device, mpm_connection, last, connected_ok, SweepVars>>

ApiMpmConnect ==
    /\ pc = "api"
    /\ \E addrok \in BOOLEAN, ook \in BOOLEAN, tok \in BOOLEAN, wok \in BOOLEAN,
          r \in ReadOutcomes(IdnLines \cup {<<>>}) :
         LET out == MpmConnect(mpm_connection, <<>>, addrok, ook, tok, wok, r)
         IN  /\ mpm_connection' = out.conn
             /\ io' = out.io
             /\ last' = Call("mpm.connect", NoArg, out.res)
             /\ connected_ok' = [connected_ok EXCEPT !.mpm = @ \/ out.res.ok]
             /\ pc' = "api_returned"
             /\ UNCHANGED <<cld_device, errors, SweepVars>>

ApiSendCommand ==
    /\ pc = "api"
    /\ \E c \in ClientCommands, wok \in BOOLEAN :
         ApiReturn("mpm.send_command", c, SendCommand(mpm_connection, <<>>, c, NoArg, wok))

ApiReadResponse ==
    /\ pc = "api"
    /\ \E r \in ReadOutcomes(OtherTexts) :
         ApiReturn("mpm.read_response", NoArg, ReadResponse(mpm_connection, <<>>, r))

ApiMpmQuery ==
    /\ pc = "api"
    /\ \E c \in ClientCommands, wok \in BOOLEAN, r \in ReadOutcomes(OtherTexts) :
         ApiReturn("mpm.query", c, MpmQuery(mpm_connection, <<>>, c, NoArg, wok, r))

ApiGetRecognizedModules ==
    /\ pc = "api"
    /\ \E wok \in BOOLEAN, r \in ReadOutcomes(OtherTexts) :
         ApiReturn("mpm.get_recognized_modules", NoArg,
                   GetRecognizedModules(mpm_connection, <<>>, wok, r))

ApiPerformZeroing ==
    /\ pc = "api"
    /\ \E wok \in BOOLEAN :
         ApiReturn("mpm.perform_zeroing", NoArg, PerformZeroing(mpm_connection, <<>>, wok))

ApiReadPower ==
    /\ pc = "api"
    /\ \E m \in Modules, wok \in BOOLEAN, r \in ReadOutcomes(OtherTexts) :
         ApiReturn("mpm.read_power", m, ReadPower(mpm_connection, <<>>, m, wok, r))

ApiReadPowerFromPort ==
    /\ pc = "api"
    /\ \E m \in Modules, p \in Ports, wok \in BOOLEAN, r \in ReadOutcomes(PowerTexts) :
         ApiReturn("mpm.read_power_from_port", p,
                   ReadPowerFromPort(mpm_connection, <<>>, m, p, wok, r))

ApiGetWavelength ==
    /\ pc = "api"
    /\ \E wok \in BOOLEAN, r \in ReadOutcomes(OtherTexts) :
         ApiReturn("mpm.get_wavelength", NoArg, GetWavelength(mpm_connection, <<>>, wok, r))

ApiSetWavelength ==
    /\ pc = "api"
    /\ \E w \in {980, 1550}, wok \in BOOLEAN :
         ApiReturn("mpm.set_wavelength", w, SetWavelength(mpm_connection, <<>>, w, wok))

ApiMpmGetError ==
    /\ pc = "api"
    /\ \E wok \in BOOLEAN, r \in ReadOutcomes(ErrLines) :
         ApiReturn("mpm.get_error", NoArg, MpmGetError(mpm_connection, <<>>, wok, r))

\* the client calls MPM210H::clear_error_queue: errors = Vec::new(), then the loop
ApiMpmClearErrorQueue ==
    /\ pc = "api"
    /\ pc' = "api_mpm_drain"
    /\ io' = <<>>
    /\ errors' = <<>>
    /\ UNCHANGED <<cld_device, mpm_connection, last, connected_ok, SweepVars>>

ApiSetMeasurementMode ==
    /\ pc = "api"
    /\ \E wok \in BOOLEAN :
         ApiReturn("mpm.set_measurement_mode", "CONST1",
                   SetMeasurementMode(mpm_connection, <<>>, "CONST1", wok))

ApiSetAverageTime ==
    /\ pc = "api"
    /\ \E wok \in BOOLEAN :
         ApiReturn("mpm.set_average_time", 100, SetAverageTime(mpm_connection, <<>>, 100, wok))

ApiSetUnit ==
    /\ pc = "api"
    /\ \E u \in Units, wok \in BOOLEAN :
         ApiReturn("mpm.set_unit", u, SetUnit(mpm_connection, <<>>, u, wok))

\* the client has taken the result of its call and is ready for the next one
ApiContinue ==
    /\ pc = "api_returned"
    /\ pc' = "api"
    /\ io' = <<>>
    /\ errors' = <<>>
    /\ last' = NoCall
    /\ UNCHANGED <<cld_device, mpm_connection, connected_ok, SweepVars>>

---------------------------------------------------------------------------
(* The error-queue loops, one turn per step *)

\* one turn of CLD1015::clear_error_queue, called by the client, by reset
\* called by the client, or by reset called by the sweep
CldClearErrorQueueStep ==
    /\ pc \in {"api_cld_drain", "api_reset_drain", "reset_drain"}
    /\ \E wok \in BOOLEAN,
          r \in ReadOutcomes(IF pc = "reset_drain" THEN SweepErrLines ELSE ErrLines) :
         LET t == CldClearErrorQueueTurn(cld_device, io, errors, wok, r)
         IN  /\ ~t.done => Len(errors) < MaxErrors
             /\ io' = t.io
             /\ errors' = t.errs
             /\ pc' = IF ~t.done THEN pc
                      ELSE IF pc = "reset_drain" THEN "check_laser" ELSE "api_returned"
             /\ last' = IF ~t.done \/ pc = "reset_drain" THEN last
                        ELSE IF pc = "api_cld_drain"
                        THEN Call("cld.clear_error_queue", NoArg, t.res)
                        ELSE Call("cld.reset", NoArg, CldResetTail(t.res))
             /\ UNCHANGED <<cld_device, mpm_connection, connected_ok, SweepVars>>

\* one turn of MPM210H::clear_error_queue, called by the client
MpmClearErrorQueueStep ==
    /\ pc = "api_mpm_drain"
    /\ \E wok \in BOOLEAN, r \in ReadOutcomes(ErrLines) :
         LET t == MpmClearErrorQueueTurn(mpm_connection, io, errors, wok, r)
         IN  /\ ~t.done => Len(errors) < MaxErrors
             /\ io' = t.io
             /\ errors' = t.errs
             /\ pc' = IF ~t.done THEN pc ELSE "api_returned"
             /\ last' = IF ~t.done THEN last
                        ELSE Call("mpm.clear_error_queue", NoArg, t.res)
             /\ UNCHANGED <<cld_device, mpm_connection, connected_ok, SweepVars>>

---------------------------------------------------------------------------
(* The sweep: _run_current_sweep_internal, one step per statement *)

\* CurrentSweepConfig::default
DefaultConfig ==
    [module |-> 0, port |-> 2, start_ma |-> 10, stop_ma |-> 100, step_ma |-> 5,
     stabilization_delay_ms |-> 50, wavelength_nm |-> 980, averaging_time_ms |-> 100,
     power_unit |-> "DBm"]

\* the configurations a sweep is run with
Configs ==
    { [DefaultConfig EXCEPT !.port = p, !.start_ma = a, !.stop_ma = b, !.step_ma = c] :
        p \in SweepPorts, a \in Currents, b \in Currents, c \in Steps }

\* the match on config.power_unit
UnitValue(power_unit) == IF power_unit = "DBm" THEN 0 ELSE 1

\* MeasurementRecord (the wall-clock timestamp is left out)
MeasurementRecord(ma, power, module) ==
    [current_ma |-> ma, power_dbm |-> power, module |-> module]

HandleVars == <<cld_device, mpm_connection, connected_ok>>

\* return Err(msg)
SweepAbort(msg) ==
    /\ pc' = "done"
    /\ ret' = Err(msg)

\* go on to the statement at next
SweepGoto(next) ==
    /\ pc' = next
    /\ ret' = ret

\* the while condition with an exclusive upper bound
LoopPcExclusive(ma) == IF ma < config.stop_ma THEN "set_current" ELSE "laser_off_end"

\* the while condition, evaluated with the loop variable at ma
LoopPc(ma) == IF ma <= config.stop_ma THEN "set_current" ELSE "laser_off_end"

SweepConnectCld ==
    /\ pc = "connect_cld"
    /\ \E rmok \in BOOLEAN, ook \in BOOLEAN, wok \in BOOLEAN, r \in ReadOutcomes(IdnLines) :
         LET out == CldConnect(cld_device, io, rmok, ook, wok, r)
         IN  /\ cld_device' = out.dev
             /\ io' = out.io
             /\ connected_ok' = [connected_ok EXCEPT !.cld = @ \/ out.res.ok]
             /\ IF out.res.ok THEN SweepGoto("connect_mpm")
                ELSE SweepAbort("Failed to connect to CLD1015")
    /\ UNCHANGED <<mpm_connection, config, current_ma, records, saved, errors, last>>

SweepConnectMpm ==
    /\ pc = "connect_mpm"
    /\ \E addrok \in BOOLEAN, ook \in BOOLEAN, tok \in BOOLEAN, wok \in BOOLEAN,
          r \in ReadOutcomes(IdnLines) :
         LET out == MpmConnect(mpm_connection, io, addrok, ook, tok, wok, r)
         IN  /\ mpm_connection' = out.conn
             /\ io' = out.io
             /\ connected_ok' = [connected_ok EXCEPT !.mpm = @ \/ out.res.ok]
             /\ IF out.res.ok THEN SweepGoto("reset")
                ELSE SweepAbort("Failed to connect to MPM210H")
    /\ UNCHANGED <<cld_device, config, current_ma, records, saved, errors, last>>

\* the reset step returning the reset's error
SweepResetFatal ==
    /\ pc = "reset"
    /\ \E wok \in BOOLEAN, owok \in BOOLEAN, r \in ReadOutcomes(SweepOpcLines) :
         LET h == CldResetHead(cld_device, io, wok, owok, r)
         IN  /\ io' = h.io
             /\ IF h.done /\ ~h.res.ok THEN SweepAbort("Failed to reset CLD1015")
                ELSE SweepGoto(IF h.done THEN "check_laser" ELSE "reset_drain")
    /\ errors' = <<>>
    /\ UNCHANGED <<HandleVars, config, current_ma, records, saved, last>>

\* cld.reset(): its result is logged, never returned
SweepReset ==
    /\ pc = "reset"
    /\ \E wok \in BOOLEAN, owok \in BOOLEAN, r \in ReadOutcomes(SweepOpcLines) :
         LET h == CldResetHead(cld_device, io, wok, owok, r)
         IN  /\ io' = h.io
             /\ SweepGoto(IF h.done THEN "check_laser" ELSE "reset_drain")
    /\ errors' = <<>>
    /\ UNCHANGED <<HandleVars, config, current_ma, records, saved, last>>

\* the laser check with the failure of its laser-off only logged
SweepCheckLaserLenient ==
    /\ pc = "check_laser"
    /\ \E wok \in BOOLEAN, r \in ReadOutcomes(SweepStateLines), fwok \in BOOLEAN :
         LET g == GetLaserOutput(cld_device, io, wok, r)
             off == SetLaserOutput(cld_device, g.io, FALSE, TRUE, ReadFail, fwok)
         IN  IF g.res.ok /\ ~g.res.val
             THEN io' = g.io /\ SweepGoto("validate")
             ELSE io' = off.io /\ SweepGoto("validate")
    /\ UNCHANGED <<HandleVars, config, current_ma, records, saved, errors, last>>

\* the match on cld.get_laser_output()
SweepCheckLaser ==
    /\ pc = "check_laser"
    /\ \E wok \in BOOLEAN, r \in ReadOutcomes(SweepStateLines), fwok \in BOOLEAN :
         LET g == GetLaserOutput(cld_device, io, wok, r)
             off == SetLaserOutput(cld_device, g.io, FALSE, TRUE, ReadFail, fwok)
         IN  IF g.res.ok /\ g.res.val
             THEN /\ io' = off.io
                  /\ IF off.res.ok THEN SweepGoto("validate")
                     ELSE SweepAbort("Failed to turn laser off after reset")
             ELSE IF g.res.ok
             THEN io' = g.io /\ SweepGoto("validate")
             ELSE io' = off.io /\ SweepGoto("validate")
    /\ UNCHANGED <<HandleVars, config, current_ma, records, saved, errors, last>>

\* the test that validates the sweep parameters
InvalidParameters(c) == c.step_ma <= 0 \/ c.start_ma > c.stop_ma

SweepValidate ==
    /\ pc = "validate"
    /\ IF InvalidParameters(config) THEN SweepAbort("Invalid sweep parameters")
       ELSE SweepGoto("tec")
    /\ UNCHANGED <<HandleVars, io, config, current_ma, records, saved, errors, last>>

\* the TEC step enabling the TEC whatever the query reported
SweepEnsureTecAlways ==
    /\ pc = "tec"
    /\ \E wok \in BOOLEAN, r \in ReadOutcomes(SweepStateLines), ewok \in BOOLEAN :
         LET t == GetTecState(cld_device, io, wok, r)
             e == EnableTec(cld_device, t.io, ewok)
         IN  IF ~t.res.ok
             THEN io' = t.io /\ SweepAbort("Failed to get TEC state")
             ELSE /\ io' = e.io
                  /\ IF e.res.ok THEN SweepGoto("zeroing")
                     ELSE SweepAbort("Failed to enable TEC")
    /\ UNCHANGED <<HandleVars, config, current_ma, records, saved, errors, last>>

\* get_tec_state, and enable_tec when it reports off
SweepEnsureTec ==
    /\ pc = "tec"
    /\ \E wok \in BOOLEAN, r \in ReadOutcomes(SweepStateLines), ewok \in BOOLEAN :
         LET t == GetTecState(cld_device, io, wok, r)
             e == EnableTec(cld_device, t.io, ewok)
         IN  IF ~t.res.ok
             THEN io' = t.io /\ SweepAbort("Failed to get TEC state")
             ELSE IF t.res.val
             THEN io' = t.io /\ SweepGoto("zeroing")
             ELSE /\ io' = e.io
                  /\ IF e.res.ok THEN SweepGoto("zeroing")
                     ELSE SweepAbort("Failed to enable TEC")
    /\ UNCHANGED <<HandleVars, config, current_ma, records, saved, errors, last>>

\* a step that goes on to the next statement whatever the call returned
SweepFatalStepLenient(out, next, msg) ==
    /\ io' = out.io
    /\ SweepGoto(next)
    /\ UNCHANGED <<HandleVars, config, current_ma, records, saved, errors, last>>

\* a step whose failure returns Err(msg): out is the adapter call's outcome
SweepFatalStep(out, next, msg) ==
    /\ io' = out.io
    /\ IF out.res.ok THEN SweepGoto(next) ELSE SweepAbort(msg)
    /\ UNCHANGED <<HandleVars, config, current_ma, records, saved, errors, last>>

SweepZeroing ==
    /\ pc = "zeroing"
    /\ \E wok \in BOOLEAN :
         SweepFatalStep(PerformZeroing(mpm_connection, io, wok), "current_mode",
                        "Failed to perform zeroing")

SweepSetCurrentMode ==
    /\ pc = "current_mode"
    /\ \E wok \in BOOLEAN :
         SweepFatalStep(SetCurrentMode(cld_device, io, wok), "laser_off_begin",
                        "Failed to set current mode")

\* turn the laser off at the beginning: a failure is logged only
SweepLaserOffBegin ==
    /\ pc = "laser_off_begin"
    /\ \E wok \in BOOLEAN :
         LET off == SetLaserOutput(cld_device, io, FALSE, TRUE, ReadFail, wok)
         IN  io' = off.io /\ SweepGoto("mpm_mode")
    /\ UNCHANGED <<HandleVars, config, current_ma, records, saved, errors, last>>

SweepSetMeasurementMode ==
    /\ pc = "mpm_mode"
    /\ \E wok \in BOOLEAN :
         SweepFatalStep(SetMeasurementMode(mpm_connection, io, "CONST1", wok), "mpm_avg",
                        "Failed to set MPM210H measurement mode")

SweepSetAverageTime ==
    /\ pc = "mpm_avg"
    /\ \E wok \in BOOLEAN :
         SweepFatalStep(SetAverageTime(mpm_connection, io, config.averaging_time_ms, wok),
                        "mpm_unit", "Failed to set MPM210H averaging time")

SweepSetUnit ==
    /\ pc = "mpm_unit"
    /\ \E wok \in BOOLEAN :
         SweepFatalStep(SetUnit(mpm_connection, io, UnitValue(config.power_unit), wok),
                        "mpm_wav", "Failed to set MPM210H measurement unit")

\* the wavelength step with its failure only logged
SweepSetWavelengthLenient ==
    /\ pc = "mpm_wav"
    /\ \E wok \in BOOLEAN :
         LET out == SetWavelength(mpm_connection, io, config.wavelength_nm, wok)
         IN  io' = out.io /\ SweepGoto("laser_on")
    /\ UNCHANGED <<HandleVars, config, current_ma, records, saved, errors, last>>

SweepSetWavelength ==
    /\ pc = "mpm_wav"
    /\ \E wok \in BOOLEAN :
         SweepFatalStep(SetWavelength(mpm_connection, io, config.wavelength_nm, wok),
                        "laser_on", "Failed to set MPM210H wavelength")

\* turn the laser on, then records = Vec::new(), current_ma = start_ma
SweepLaserOn ==
    /\ pc = "laser_on"
    /\ \E twok \in BOOLEAN, tr \in ReadOutcomes(SweepStateLines), wok \in BOOLEAN :
         LET on == SetLaserOutput(cld_device, io, TRUE, twok, tr, wok)
         IN  /\ io' = on.io
             /\ IF on.res.ok THEN SweepGoto(LoopPc(config.start_ma))
                ELSE SweepAbort("Failed to enable laser output")
    /\ records' = <<>>
    /\ current_ma' = config.start_ma
    /\ UNCHANGED <<HandleVars, config, saved, errors, last>>

\* current_ma / 1000.0
MilliampsToAmps(ma) == Amps(ma, 1000)

\* the set-current step returning its error without switching the laser off
SweepSetCurrentNoShutdown ==
    /\ pc = "set_current"
    /\ \E wok \in BOOLEAN :
         LET set == SetCurrent(cld_device, io, MilliampsToAmps(current_ma), wok)
         IN  /\ io' = set.io
             /\ IF set.res.ok THEN SweepGoto("read_power")
                ELSE SweepAbort("Failed to set current")
    /\ UNCHANGED <<HandleVars, config, current_ma, records, saved, errors, last>>

\* loop body, first half: set the current; on failure laser off, return Err
SweepSetCurrent ==
    /\ pc = "set_current"
    /\ \E wok \in BOOLEAN, fwok \in BOOLEAN :
         LET set == SetCurrent(cld_device, io, MilliampsToAmps(current_ma), wok)
             off == SetLaserOutput(cld_device, set.io, FALSE, TRUE, ReadFail, fwok)
         IN  IF set.res.ok
             THEN io' = set.io /\ SweepGoto("read_power")
             ELSE io' = off.io /\ SweepAbort("Failed to set current")
    /\ UNCHANGED <<HandleVars, config, current_ma, records, saved, errors, last>>

\* loop body, second half: read the power; on failure laser off, return Err;
\* else push the record, current_ma += step_ma and test the while condition
SweepReadPower ==
    /\ pc = "read_power"
    /\ \E wok \in BOOLEAN, r \in ReadOutcomes(SweepPowerTexts), fwok \in BOOLEAN :
         LET power == ReadPowerFromPort(mpm_connection, io, config.module, config.port, wok, r)
             off == SetLaserOutput(cld_device, power.io, FALSE, TRUE, ReadFail, fwok)
         IN  IF power.res.ok
             THEN /\ io' = power.io
                  /\ records' = Append(records,
                         MeasurementRecord(current_ma, power.res.val, config.module))
                  /\ current_ma' = current_ma + config.step_ma
                  /\ SweepGoto(LoopPc(current_ma + config.step_ma))
             ELSE /\ io' = off.io
                  /\ SweepAbort("Failed to read power")
                  /\ UNCHANGED <<records, current_ma>>
    /\ UNCHANGED <<HandleVars, config, saved, errors, last>>

\* turn the laser off after the sweep: a failure is logged only
SweepLaserOffEnd ==
    /\ pc = "laser_off_end"
    /\ \E wok \in BOOLEAN :
         LET off == SetLaserOutput(cld_device, io, FALSE, TRUE, ReadFail, wok)
         IN  io' = off.io /\ SweepGoto("save")
    /\ UNCHANGED <<HandleVars, config, current_ma, records, saved, errors, last>>

\* the save step returning the path whether or not the file was written
SweepSaveIgnoringFailure ==
    /\ pc = "save"
    /\ \E sok \in BOOLEAN :
         /\ saved' = Append(saved, [data |-> records, ok |-> sok])
         /\ pc' = "done"
         /\ ret' = Ok("path")
    /\ UNCHANGED <<HandleVars, io, config, current_ma, records, errors, last>>

\* save_measurements_to_csv(&records): sok is whether the file was written
SweepSave ==
    /\ pc = "save"
    /\ \E sok \in BOOLEAN :
         /\ saved' = Append(saved, [data |-> records, ok |-> sok])
         /\ pc' = "done"
         /\ ret' = IF sok THEN Ok("path") ELSE Err("Failed to save CSV")
    /\ UNCHANGED <<HandleVars, io, config, current_ma, records, errors, last>>

---------------------------------------------------------------------------
(* Specification *)

NotReturned == Err("not returned")

\* CLD1015::new and MPM210H::new, then either a library client or main's sweep
Init ==
    /\ cld_device = FALSE
    /\ mpm_connection = FALSE
    /\ connected_ok = [cld |-> FALSE, mpm |-> FALSE]
    /\ io = <<>>
    /\ pc \in {"api", "connect_cld"}
    /\ config \in IF pc = "api" THEN {DefaultConfig} ELSE Configs
    /\ current_ma = config.start_ma
    /\ records = <<>>
    /\ saved = <<>>
    /\ ret = NotReturned
    /\ errors = <<>>
    /\ last = NoCall

Next ==
    \/ ApiCldConnect \/ ApiCldWrite \/ ApiCldRead \/ ApiCldQuery
    \/ ApiEnableTec \/ ApiGetTecState \/ ApiSetCurrentMode \/ ApiSetCurrent
    \/ ApiGetCurrent \/ ApiSetLaserOutput \/ ApiGetLaserOutput \/ ApiCldGetError
    \/ ApiCldClearErrorQueue \/ ApiCldReset
    \/ ApiMpmConnect \/ ApiSendCommand \/ ApiReadResponse \/ ApiMpmQuery
    \/ ApiGetRecognizedModules \/ ApiPerformZeroing \/ ApiReadPower
    \/ ApiReadPowerFromPort \/ ApiGetWavelength \/ ApiSetWavelength
    \/ ApiMpmGetError \/ ApiMpmClearErrorQueue \/ ApiSetMeasurementMode
    \/ ApiSetAverageTime \/ ApiSetUnit \/ ApiContinue
    \/ CldClearErrorQueueStep \/ MpmClearErrorQueueStep
    \/ SweepConnectCld \/ SweepConnectMpm \/ SweepReset \/ SweepCheckLaser
    \/ SweepValidate \/ SweepEnsureTec \/ SweepZeroing \/ SweepSetCurrentMode
    \/ SweepLaserOffBegin \/ SweepSetMeasurementMode \/ SweepSetAverageTime
    \/ SweepSetUnit \/ SweepSetWavelength \/ SweepLaserOn \/ SweepSetCurrent
    \/ SweepReadPower \/ SweepLaserOffEnd \/ SweepSave

Spec == Init /\ [][Next]_vars

---------------------------------------------------------------------------
(* Reading the trace *)

ApiPcs == {"api", "api_returned", "api_cld_drain", "api_mpm_drain", "api_reset_drain"}
InSweep == pc \notin ApiPcs
Returned(op) == pc = "api_returned" /\ last.op = op

IsWrite(e, d, name) == e.kind = "write" /\ e.dev = d /\ e.name = name
IsSetCurrentCmd(e) == IsWrite(e, "cld", "SOURce:CURRent:LEVel:IMMediate:AMPLitude")
IsLaserCmd(e) == IsWrite(e, "cld", "OUTPut:STATe")
IsLaserOn(e) == IsLaserCmd(e) /\ e.arg = "ON"
IsLaserOff(e) == IsLaserCmd(e) /\ e.arg = "OFF"
IsErrQuery(e) == e.kind = "write" /\ e.name \in {"SYST:ERR?", "ERR?"}

\* a read that delivered a text, and the text the adapter's read returns for it
IsAnswer(e) == e.kind = "read" /\ e.ok
Answer(e) == Trim(e.raw)

\* the texts that mean ON: "ON" in any case, or "1"
OnTexts == { <<"O", "N">>, <<"O", "n">>, <<"o", "N">>, <<"o", "n">>, <<"1">> }

SafetyCeilingMa == 1500

---------------------------------------------------------------------------
(* Claims *)

\* C1: a set_current call above the 1.5 A ceiling fails and sends nothing, and
\* no set-current command above the ceiling ever appears in the device I/O of
\* a library call or of a sweep run, whatever the configuration.
C1_CeilingNeverExceeded ==
    /\ \A i \in 1..Len(io) :
         IsSetCurrentCmd(io[i]) => io[i].arg.num * 1000 <= SafetyCeilingMa * io[i].arg.den
    /\ Returned("cld.set_current") /\ last.arg.num * 1000 > SafetyCeilingMa * last.arg.den
         => ~last.res.ok /\ io = <<>>
    /\ pc = "read_power" => current_ma <= SafetyCeilingMa

\* C1 witness: a connected laser driver was asked for more than the ceiling
C1_Witness ==
    /\ Returned("cld.set_current")
    /\ cld_device
    /\ last.arg.num * 1000 > SafetyCeilingMa * last.arg.den

\* C2: enabling the laser fails, without a laser-on command, whenever the TEC
\* query answers anything but ON; every laser-on command directly follows a
\* TEC-state query answered ON; a sweep whose enable failed sent no set-current.
C2_LaserOnOnlyAfterTecOn ==
    /\ Returned("cld.set_laser_output") /\ last.arg = TRUE
         /\ Len(io) >= 2 /\ IsAnswer(io[2]) /\ Answer(io[2]) \notin OnTexts
         => ~last.res.ok /\ \A i \in 1..Len(io) : ~IsLaserOn(io[i])
    /\ \A i \in 1..Len(io) :
         IsLaserOn(io[i]) =>
             /\ i >= 3
             /\ IsWrite(io[i - 2], "cld", "OUTPut2:STATe?") /\ io[i - 2].ok
             /\ io[i - 1].dev = "cld" /\ IsAnswer(io[i - 1])
             /\ Answer(io[i - 1]) \in OnTexts
    /\ InSweep =>
         \A i \in 1..Len(io) :
             IsSetCurrentCmd(io[i]) => \E j \in 1..(i - 1) : IsLaserOn(io[j]) /\ io[j].ok
    /\ pc = "done" /\ ret.err = "Failed to enable laser output"
         => \A i \in 1..Len(io) : ~IsSetCurrentCmd(io[i])

\* C2 witness: a sweep aborted at laser-enable because the TEC answered OFF
C2_Witness ==
    /\ pc = "done"
    /\ ret.err = "Failed to enable laser output"
    /\ IsAnswer(io[Len(io)])
    /\ Answer(io[Len(io)]) \notin OnTexts

\* C3: with step <= 0 or start > stop the sweep makes no device call at all:
\* no connect, reset, query or command on either device.
C3_RejectedBeforeAnyDeviceCall ==
    InSweep /\ (config.step_ma <= 0 \/ config.start_ma > config.stop_ma) => io = <<>>

\* C4: a sweep that returns after a laser-on command was sent successfully has
\* issued a laser-off command after it: the last laser-output command is OFF.
C4_LaserOffOnEveryReturn ==
    pc = "done" /\ (\E i \in 1..Len(io) : IsLaserOn(io[i]) /\ io[i].ok)
        => \E k \in 1..Len(io) :
               /\ IsLaserOff(io[k])
               /\ \A j \in (k + 1)..Len(io) : ~IsLaserCmd(io[j])

\* C4 witness: the power read failed in the loop after a record was taken
C4_Witness ==
    /\ pc = "done"
    /\ ret.err = "Failed to read power"
    /\ Len(records) >= 1
    /\ \E i \in 1..Len(io) : IsLaserOn(io[i]) /\ io[i].ok

\* the currents start, start+step, ... that are <= stop
ExpectedCurrents(c) ==
    [i \in 1..((c.stop_ma - c.start_ma) \div c.step_ma + 1) |->
        c.start_ma + (i - 1) * c.step_ma]

Commas(s) == {i \in 1..Len(s) : s[i] = ","}
FieldCount(s) == Cardinality(Commas(s)) + 1
Field(s, k) ==
    LET before == {i \in Commas(s) : Cardinality({j \in Commas(s) : j <= i}) = k - 1}
        after == {i \in Commas(s) : Cardinality({j \in Commas(s) : j <= i}) = k}
        from == IF k = 1 THEN 1 ELSE (CHOOSE i \in before : TRUE) + 1
        to == IF after = {} THEN Len(s) ELSE (CHOOSE i \in after : TRUE) - 1
    IN  SubSeq(s, from, to)

\* C6: for a port in 1..4 and a response received from the power meter,
\* read_power_from_port fails with a Parse error when the response has fewer
\* comma-separated fields than the port, and otherwise returns the trimmed
\* field at 0-based position port-1.
C6_PortFieldExtracted ==
    Returned("mpm.read_power_from_port") /\ last.arg \in 1..4
        /\ Len(io) = 2 /\ IsAnswer(io[2]) /\ io[2].raw # <<>>
        => IF FieldCount(io[2].raw) < last.arg
           THEN ~last.res.ok /\ last.res.err = "ParseError"
           ELSE last.res.ok /\ last.res.val = Trim(Field(io[2].raw, last.arg))

\* C6 witness: port 2 of a response whose second field needs trimming
C6_Witness ==
    /\ Returned("mpm.read_power_from_port")
    /\ last.arg = 2
    /\ last.res.ok
    /\ last.res.val = <<"5">>
    /\ Len(io) = 2
    /\ io[2].raw = <<"5", ",", " ", "5", ",">>

\* the sentinel of an error queue: a text beginning with "0" or, for the power
\* meter, one containing "no error" (in any letter case)
BeginsWithZero(t) == t # <<>> /\ t[1] = "0"
SaysNoError(t) ==
    \E i \in 0..Len(t) :
        /\ i + 8 <= Len(t)
        /\ \A j \in 1..8 : t[i + j] \in IF NO_ERROR[j] = "n" THEN {"n", "N"}
                                       ELSE IF NO_ERROR[j] = "o" THEN {"o", "O"}
                                       ELSE IF NO_ERROR[j] = "e" THEN {"e", "E"}
                                       ELSE IF NO_ERROR[j] = "r" THEN {"r", "R"}
                                       ELSE {NO_ERROR[j]}
Sentinel(d, t) == BeginsWithZero(t) \/ (d = "mpm" /\ SaysNoError(t))

\* the texts the error queries of the trace have returned, in order
AnswersOf(tr) ==
    LET reads == SelectSeq(tr, IsAnswer)
    IN  [i \in 1..Len(reads) |-> Answer(reads[i])]

\* C7: while clear_error_queue is running no sentinel has been received and
\* the entries collected are the responses so far; when it returns Ok the last
\* I/O is the read of the first sentinel and the result is exactly the
\* responses before it, in order, without the sentinel.
C7_DrainStopsAtSentinel ==
    /\ \A d \in {"cld", "mpm"} :
         pc = "api_" \o d \o "_drain" =>
             /\ errors = AnswersOf(io)
             /\ \A i \in 1..Len(errors) : ~Sentinel(d, errors[i])
    /\ \A d \in {"cld", "mpm"} :
         Returned(d \o ".clear_error_queue") /\ last.res.ok =>
             LET got == AnswersOf(io)
             IN  /\ got # <<>>
                 /\ IsAnswer(io[Len(io)])
                 /\ Sentinel(d, got[Len(got)])
                 /\ \A i \in 1..(Len(got) - 1) : ~Sentinel(d, got[i])
                 /\ last.res.val = SubSeq(got, 1, Len(got) - 1)
                 /\ Len(SelectSeq(io, IsErrQuery)) = Len(got)

\* C7 witness: the power meter's drain returned entries, stopped by "no error"
C7_Witness ==
    /\ Returned("mpm.clear_error_queue")
    /\ last.res.ok
    /\ Len(last.res.val) >= 1
    /\ ~BeginsWithZero(Answer(io[Len(io)]))

\* C8: whenever *OPC? is answered by anything but "1", reset returns an
\* explicit error and sends no error-queue query afterwards.
C8_ResetFailsUnlessOpcIsOne ==
    \A i \in 1..(Len(io) - 1) :
        IsWrite(io[i], "cld", "*OPC?") /\ IsAnswer(io[i + 1]) /\ Answer(io[i + 1]) # <<"1">>
            => /\ \A j \in (i + 2)..Len(io) : ~IsErrQuery(io[j])
               /\ pc \notin {"api_reset_drain", "reset_drain"}
               /\ Returned("cld.reset") => ~last.res.ok /\ last.res.err = "Other"

\* C8 witness: reset returned after *OPC? answered "11"
C8_Witness ==
    /\ Returned("cld.reset")
    /\ Len(io) = 3
    /\ IsAnswer(io[3])
    /\ Answer(io[3]) = <<"1", "1">>

CldOps ==
    {"cld.write", "cld.read", "cld.query", "cld.enable_tec", "cld.get_tec_state",
     "cld.set_current_mode", "cld.set_current", "cld.get_current",
     "cld.set_laser_output", "cld.get_laser_output", "cld.get_error",
     "cld.clear_error_queue", "cld.reset"}
MpmOps ==
    {"mpm.send_command", "mpm.read_response", "mpm.query", "mpm.get_recognized_modules",
     "mpm.perform_zeroing", "mpm.read_power", "mpm.read_power_from_port",
     "mpm.get_wavelength", "mpm.set_wavelength", "mpm.get_error",
     "mpm.clear_error_queue", "mpm.set_measurement_mode", "mpm.set_average_time",
     "mpm.set_unit"}

\* C9: an operation called on an adapter that holds no handle fails and sends
\* nothing: while the handle is absent the adapter has written and read nothing.
C9_DisconnectedOperationsFail ==
    /\ ~cld_device =>
         /\ \A i \in 1..Len(io) : io[i].dev = "cld" => io[i].kind = "open"
         /\ pc = "api_returned" /\ last.op \in CldOps => ~last.res.ok /\ io = <<>>
    /\ ~mpm_connection =>
         /\ \A i \in 1..Len(io) : io[i].dev = "mpm" => io[i].kind = "open"
         /\ pc = "api_returned" /\ last.op \in MpmOps => ~last.res.ok /\ io = <<>>

\* C9 witness: zeroing was called on a disconnected power meter while the
\* laser driver was connected
C9_Witness ==
    /\ Returned("mpm.perform_zeroing")
    /\ ~mpm_connection
    /\ cld_device

\* C10: an adapter holds a handle only if one of its connect calls has
\* returned success.
C10_HandleAbsentUntilConnectSucceeds ==
    /\ cld_device => connected_ok.cld
    /\ mpm_connection => connected_ok.mpm

---------------------------------------------------------------------------
(* The sweep beyond the drain bound, for termination *)

\* error-queue entries the laser driver may go on reporting without end
EndlessErrLines == { <<"-", "1", ",", "e", "r", "r">>, <<"-", "2", ",", "e", "r", "r">> }

\* a turn of the drain of the sweep's reset once MaxErrors entries are held:
\* the loop goes on as before; of the unbounded vector and trace only the
\* latest MaxErrors entries are kept
CldClearErrorQueueBeyond ==
    /\ pc = "reset_drain"
    /\ Len(errors) = MaxErrors
    /\ \E r \in ReadOutcomes(EndlessErrLines) :
         LET t == CldClearErrorQueueTurn(cld_device, io, errors, TRUE, r)
         IN  /\ ~t.done
             /\ errors' = Tail(t.errs)
    /\ UNCHANGED <<cld_device, mpm_connection, connected_ok, io, pc, last, SweepVars>>

SweepNext ==
    \/ SweepConnectCld \/ SweepConnectMpm \/ SweepReset \/ CldClearErrorQueueStep
    \/ CldClearErrorQueueBeyond \/ SweepCheckLaser
    \/ SweepValidate \/ SweepEnsureTec \/ SweepZeroing \/ SweepSetCurrentMode
    \/ SweepLaserOffBegin \/ SweepSetMeasurementMode \/ SweepSetAverageTime
    \/ SweepSetUnit \/ SweepSetWavelength \/ SweepLaserOn \/ SweepSetCurrent
    \/ SweepReadPower \/ SweepLaserOffEnd \/ SweepSave

\* a sweep from 0 mA in steps of Quantum; the program is single-threaded and
\* takes its next step whenever it has one
LiveInit == Init /\ pc = "connect_cld" /\ config.step_ma = Quantum /\ config.start_ma = 0

LiveSpec == LiveInit /\ [][SweepNext]_vars /\ WF_vars(SweepNext)

\* C11: a sweep run that has started eventually returns.
C11_SweepEventuallyReturns == <>(pc = "done")

\* the failures of device I/O a sweep goes on after: those inside the reset,
\* of the post-reset laser-state query, and of a laser-off command
ToleratedNames == {"*RST", "*OPC?", "SYST:ERR?", "OUTPut:STATe?"}
Tolerated(i) ==
    \/ io[i].kind = "write" /\ io[i].dev = "cld" /\ io[i].name \in ToleratedNames
    \/ IsLaserOff(io[i])
    \/ io[i].kind = "read" /\ i > 1 /\ io[i - 1].dev = "cld" /\ io[i - 1].name \in ToleratedNames

\* C12 as stated: in a sweep run every failed device I/O has aborted the run.
C12_EveryFailureAborts ==
    InSweep => \A i \in 1..Len(io) : ~io[i].ok => pc = "done" /\ ~ret.ok

\* C12 amended: in a sweep run a failed device I/O is never issued again as
\* a retry, and it has aborted the run unless it is a tolerated failure
\* (inside the reset, the post-reset laser-state query, a laser-off command).
C12_UntoleratedFailureAborts ==
    InSweep =>
        /\ \A i \in 1..Len(io) :
             ~io[i].ok /\ ~Tolerated(i) => pc = "done" /\ ~ret.ok /\ saved = <<>>
        /\ \A i \in 1..(Len(io) - 1) :
             ~io[i].ok =>
                 /\ ~(io[i + 1].kind = io[i].kind /\ io[i + 1].dev = io[i].dev
                        /\ io[i + 1].name = io[i].name)
                 /\ io[i].kind = "read" =>
                        ~(io[i + 1].dev = io[i - 1].dev /\ io[i + 1].name = io[i - 1].name)

\* C12 witness: a run that went on after a failed reset command and was then
\* aborted by the failed zeroing trigger
C12_Witness ==
    /\ pc = "done"
    /\ ret.err = "Failed to perform zeroing"
    /\ \E i \in 1..Len(io) : IsWrite(io[i], "cld", "*RST") /\ ~io[i].ok
    /\ ~io[Len(io)].ok

\* the first position after k of the trace that satisfies P, or Len(io) + 1
FirstAfter(k, P(_)) ==
    IF \E j \in (k + 1)..Len(io) : P(io[j])
    THEN CHOOSE j \in (k + 1)..Len(io) : P(io[j]) /\ \A h \in (k + 1)..(j - 1) : ~P(io[h])
    ELSE Len(io) + 1

IsOpenOk(d, e) == e.kind = "open" /\ e.dev = d /\ e.ok
IsCldOpenOk(e) == IsOpenOk("cld", e)
IsMpmOpenOk(e) == IsOpenOk("mpm", e)
IsTecQueryOk(e) == IsWrite(e, "cld", "OUTPut2:STATe?") /\ e.ok
IsTecEnable(e) == IsWrite(e, "cld", "OUTPut2:STATe")
IsZeroOk(e) == IsWrite(e, "mpm", "ZERO") /\ e.ok
IsModeOk(e) == IsWrite(e, "cld", "SOURce:FUNCtion:MODE") /\ e.ok
IsWmodOk(e) == IsWrite(e, "mpm", "WMOD") /\ e.ok
IsAvgOk(e) == IsWrite(e, "mpm", "AVG") /\ e.ok
IsUnitOk(e) == IsWrite(e, "mpm", "UNIT") /\ e.ok
IsWavOk(e) == IsWrite(e, "mpm", "WAV") /\ e.ok
IsPowerRead(e) == IsWrite(e, "mpm", "READ?")

\* the preparations of a sweep have succeeded, in order, before position i
PreparedBefore(i) ==
    LET c1 == FirstAfter(0, IsCldOpenOk)
        c2 == FirstAfter(c1, IsMpmOpenOk)
        t == FirstAfter(c2, IsTecQueryOk)
        z == FirstAfter(t, IsZeroOk)
        m == FirstAfter(z, IsModeOk)
        w == FirstAfter(m, IsWmodOk)
        a == FirstAfter(w, IsAvgOk)
        u == FirstAfter(a, IsUnitOk)
        v == FirstAfter(u, IsWavOk)
    IN  /\ v < i
        /\ IsWrite(io[c1 + 1], "cld", "*IDN?") /\ io[c1 + 1].ok /\ IsAnswer(io[c1 + 2])
        /\ IsWrite(io[c2 + 1], "mpm", "*IDN?") /\ io[c2 + 1].ok /\ IsAnswer(io[c2 + 2])
        /\ IsAnswer(io[t + 1])
        /\ \/ Answer(io[t + 1]) \in OnTexts
           \/ IsTecEnable(io[t + 2]) /\ io[t + 2].ok /\ t + 2 < z

ConfigurationErrors ==
    {"Failed to perform zeroing", "Failed to set current mode",
     "Failed to set MPM210H measurement mode", "Failed to set MPM210H averaging time",
     "Failed to set MPM210H measurement unit", "Failed to set MPM210H wavelength"}

\* C13: in a sweep run a laser-on command is sent only after both connects,
\* the TEC check (with TEC-enable if it was off), the zeroing trigger, the
\* current-mode command and the four power-meter configuration commands have
\* succeeded in that order; a run aborted by the zeroing trigger or by one of
\* the configuration commands has sent no laser-on, set-current or power read.
C13_LaserOnOnlyWhenPrepared ==
    InSweep =>
        /\ \A i \in 1..Len(io) : IsLaserOn(io[i]) => PreparedBefore(i)
        /\ pc = "done" /\ ret.err \in ConfigurationErrors =>
             \A i \in 1..Len(io) :
                 ~IsLaserOn(io[i]) /\ ~IsSetCurrentCmd(io[i]) /\ ~IsPowerRead(io[i])

\* C13 witness: the TEC was off and enabled, and the run was aborted by the
\* last configuration command
C13_Witness ==
    /\ pc = "done"
    /\ ret.err = "Failed to set MPM210H wavelength"
    /\ \E i \in 1..Len(io) : IsTecEnable(io[i]) /\ io[i].ok

\* C14: records are persisted at most once per run, after the loop has
\* covered the whole range and after the post-sweep laser-off was attempted;
\* a run aborted inside the loop never invokes the persister; a failed
\* persistence makes the sweep return an error.
C14_PersistedOnceAfterTheLoop ==
    InSweep =>
        /\ Len(saved) <= 1
        /\ pc = "done" /\ ret.err \in {"Failed to set current", "Failed to read power"}
             => saved = <<>>
        /\ pc = "done" /\ ret.ok => Len(saved) = 1 /\ saved[1].ok
        /\ Len(saved) = 1 =>
             /\ pc = "done"
             /\ saved[1].data = records
             /\ Len(records) = Len(ExpectedCurrents(config))
             /\ IsLaserOff(io[Len(io)])
             /\ ~saved[1].ok => ~ret.ok /\ ret.err = "Failed to save CSV"

\* C14 witness: the persister failed after a loop of at least two records
C14_Witness ==
    /\ pc = "done"
    /\ ret.err = "Failed to save CSV"
    /\ Len(records) >= 2

\* C15: the reset never ends the run: from the reset, and from its error
\* queue drain, the sweep only goes on to the drain or to the laser check.
C15_ResetFailureNeverAborts ==
    [][(pc \in {"reset", "reset_drain"}) => (pc' \in {"reset_drain", "check_laser"})]_vars

\* C15 witness: the reset command failed and the run is at the laser check
C15_Witness ==
    /\ pc = "check_laser"
    /\ ~io[Len(io)].ok
    /\ IsWrite(io[Len(io)], "cld", "*RST")

IsLaserQuery(e) == IsWrite(e, "cld", "OUTPut:STATe?")

\* C16: after the post-reset laser check: if the query answered ON a
\* laser-off followed and its failure aborted the run; if it answered OFF no
\* laser command followed; if the query failed a laser-off followed and its
\* failure did not abort the run.
C16_LaserCheckedAfterReset ==
    InSweep =>
        \A q \in 1..Len(io) :
            IsLaserQuery(io[q]) =>
                LET answered == io[q].ok /\ IsAnswer(io[q + 1])
                    off == IF io[q].ok THEN q + 2 ELSE q + 1
                IN  IF answered /\ Answer(io[q + 1]) \in OnTexts
                    THEN /\ IsLaserOff(io[off])
                         /\ ~io[off].ok =>
                                /\ pc = "done" /\ Len(io) = off
                                /\ ret.err = "Failed to turn laser off after reset"
                    ELSE IF answered
                    THEN /\ Len(io) >= off => ~IsLaserCmd(io[off])
                         /\ ret.err # "Failed to turn laser off after reset"
                    ELSE /\ IsLaserOff(io[off])
                         /\ ret.err # "Failed to turn laser off after reset"
                         /\ Len(io) = off => pc \in {"validate", "tec", "done"}
                         /\ Len(io) = off /\ pc = "done" =>
                                ret.err = "Invalid sweep parameters"

\* C16 witness: the query failed, the precautionary laser-off failed too, and
\* the run went on
C16_Witness ==
    /\ pc = "tec"
    /\ IsLaserOff(io[Len(io)])
    /\ ~io[Len(io)].ok
    /\ IsLaserQuery(io[Len(io) - 2])
    /\ ~io[Len(io) - 1].ok

\* C17: in the TEC step of a sweep the TEC-enable command is sent if and only
\* if the TEC-state query answered something other than ON, at most once per
\* run, and a failed query or a failed enable aborts the run before the
\* zeroing trigger.
C17_TecEnabledIffOff ==
    InSweep =>
        LET t == FirstAfter(0, LAMBDA e : IsWrite(e, "cld", "OUTPut2:STATe?"))
            enables == {i \in 1..Len(io) : IsTecEnable(io[i])}
            zeroed == \E i \in 1..Len(io) : IsWrite(io[i], "mpm", "ZERO")
        IN  /\ Cardinality(enables) <= 1
            /\ t > Len(io) => enables = {}
            /\ t <= Len(io) =>
                 IF io[t].ok /\ IsAnswer(io[t + 1])
                 THEN /\ Answer(io[t + 1]) \notin OnTexts <=> enables = {t + 2}
                      /\ \A i \in enables : ~io[i].ok =>
                             pc = "done" /\ ret.err = "Failed to enable TEC" /\ ~zeroed
                 ELSE /\ enables = {}
                      /\ pc = "done" /\ ret.err = "Failed to get TEC state" /\ ~zeroed

\* C17 witness: the TEC was off and the enable command failed
C17_Witness ==
    /\ pc = "done"
    /\ ret.err = "Failed to enable TEC"
    /\ IsTecEnable(io[Len(io)])

\* C18: every record persisted by a sweep that completed has a non-empty
\* power string.
C18_PersistedPowerNonEmpty ==
    InSweep /\ pc = "done" /\ ret.ok =>
        \A i \in 1..Len(saved[1].data) : saved[1].data[i].power_dbm # <<>>

IsCldErrQuery(e) == IsWrite(e, "cld", "SYST:ERR?")

\* C19: reset sends the reset command, then the operation-complete query,
\* then drains the error queue, and once the reset command was sent and the
\* completion query answered "1" it returns success whatever the drain did.
C19_ResetOrderBestEffortDrain ==
    pc = "api_reset_drain" \/ Returned("cld.reset") =>
        /\ Len(io) >= 1 => IsWrite(io[1], "cld", "*RST")
        /\ Len(io) >= 2 => io[1].ok /\ IsWrite(io[2], "cld", "*OPC?")
        /\ Len(io) >= 3 => io[2].ok /\ io[3].kind = "read"
        /\ Len(io) >= 4 =>
             /\ IsAnswer(io[3]) /\ Answer(io[3]) = <<"1">>
             /\ \A j \in 4..Len(io) :
                  \/ IsCldErrQuery(io[j])
                  \/ io[j].kind = "read" /\ IsCldErrQuery(io[j - 1])
        /\ pc = "api_reset_drain" => Len(io) >= 3
        /\ Returned("cld.reset") /\ Len(io) >= 3 /\ IsAnswer(io[3]) /\ Answer(io[3]) = <<"1">>
             => last.res.ok /\ Len(io) >= 4

\* C19 witness: reset returned success although its drain ended on a failure
C19_Witness ==
    /\ Returned("cld.reset")
    /\ last.res.ok
    /\ ~io[Len(io)].ok

\* C20: read_power_from_port with a port outside 1..4 and set_unit with a
\* unit outside {0,1} fail with a Parse error and send nothing, connected or not.
C20_ArgumentsValidatedBeforeIo ==
    /\ Returned("mpm.read_power_from_port") /\ last.arg \notin 1..4
         => ~last.res.ok /\ last.res.err = "ParseError" /\ io = <<>>
    /\ Returned("mpm.set_unit") /\ last.arg \notin {0, 1}
         => ~last.res.ok /\ last.res.err = "ParseError" /\ io = <<>>

\* C20 witness: a connected power meter was asked for unit 2
C20_Witness ==
    /\ Returned("mpm.set_unit")
    /\ last.arg = 2
    /\ mpm_connection

\* C21: a sweep configured with a port outside 1..4 and otherwise valid
\* parameters never sends a READ? query to the power meter and never persists
\* anything; when it returns it returns an error, and if a laser-on command
\* had been sent successfully, a laser-off command was issued after it.
C21_InvalidPortSweepFails ==
    InSweep /\ config.port \notin 1..4 /\ ~InvalidParameters(config)
        => /\ \A i \in 1..Len(io) : ~IsPowerRead(io[i])
           /\ saved = <<>>
           /\ pc = "done" => ~ret.ok
           /\ pc = "done" =>
                \A i \in 1..Len(io) :
                    IsLaserOn(io[i]) /\ io[i].ok
                        => \E j \in (i + 1)..Len(io) : IsLaserOff(io[j])

\* C21 witness: the laser was enabled and the first current set, then the read
\* of the out-of-range port failed and the laser was switched off
C21_Witness ==
    /\ pc = "done"
    /\ config.port \notin 1..4
    /\ ~InvalidParameters(config)
    /\ ret.err = "Failed to read power"
    /\ \E i \in 1..Len(io) : IsLaserOn(io[i]) /\ io[i].ok
    /\ \E i \in 1..Len(io) : IsSetCurrentCmd(io[i]) /\ io[i].ok
    /\ IsLaserOff(io[Len(io)])

\* C22: set_laser_output(false) on a connected driver performs exactly one
\* device operation, the write of OUTPut:STATe OFF, and its result is that
\* write's result; on a disconnected driver it performs none and fails with
\* NotConnected. No TEC-state query is made: in a sweep no laser-off command
\* directly follows a TEC-state query and its answer.
C22_LaserOffUnconditional ==
    /\ Returned("cld.set_laser_output") /\ last.arg = FALSE
         => IF cld_device
            THEN /\ Len(io) = 1
                 /\ IsLaserOff(io[1])
                 /\ last.res.ok = io[1].ok
            ELSE io = <<>> /\ last.res.err = "NotConnected"
    /\ InSweep =>
         \A i \in 1..Len(io) :
             IsLaserOff(io[i]) =>
                 /\ \/ i = 1
                    \/ ~IsWrite(io[i - 1], "cld", "OUTPut2:STATe?")
                 /\ \/ i <= 2
                    \/ ~IsWrite(io[i - 2], "cld", "OUTPut2:STATe?")

\* C22 witness: a laser-off request on a connected driver succeeded
C22_Witness ==
    /\ Returned("cld.set_laser_output")
    /\ last.arg = FALSE
    /\ cld_device
    /\ last.res.ok
    /\ Len(io) = 1

\* the positions of the writes in a trace
Writes(tr) == {i \in 1..Len(tr) : tr[i].kind = "write"}

\* the trace of a query called by the client on device d with command text
\* last.arg: nothing when disconnected, else one write of the command, followed
\* by one read exactly when the write succeeded
QueryTrace(d, connected) ==
    IF ~connected
    THEN io = <<>> /\ last.res.err = "NotConnected"
    ELSE /\ Len(io) \in {1, 2}
         /\ Writes(io) = {1}
         /\ IsWrite(io[1], d, last.arg)
         /\ IF io[1].ok
            THEN Len(io) = 2 /\ io[2].kind = "read" /\ io[2].dev = d
            ELSE Len(io) = 1 /\ ~last.res.ok
                   /\ last.res.err = (IF d = "cld" THEN "Io" ELSE "IoError")

\* C23: on both adapters a query is one write followed by at most one read: a
\* failed write is returned as the failure with no read attempted, and the
\* command is written once. In a sweep every read directly follows a
\* successful write to the same device.
C23_QueryIsOneWriteThenOneRead ==
    /\ Returned("cld.query") => QueryTrace("cld", cld_device)
    /\ Returned("mpm.query") => QueryTrace("mpm", mpm_connection)
    /\ InSweep =>
         \A i \in 1..Len(io) :
             io[i].kind = "read" =>
                 /\ i > 1
                 /\ io[i - 1].kind = "write"
                 /\ io[i - 1].ok
                 /\ io[i - 1].dev = io[i].dev

\* C23 witness: a query on the laser driver whose write failed
C23_Witness ==
    /\ Returned("cld.query")
    /\ cld_device
    /\ Len(io) = 1
    /\ ~io[1].ok
    /\ last.res.err = "Io"

===========================================================================
